---- MODULE Spec2Model ----
\* A model of plugin.video.extra_shows (main.py): the filename pattern matcher,
\* the episode matcher, the show and episode enumerators, the listing handlers
\* and the route dispatcher, with the host (Kodi) that invokes the plugin with
\* query strings, among them the ones the plugin itself put on listed items.
\*
\* Text is modelled as a sequence of one-character strings, so that pathlib's
\* suffix handling, the regular expressions and the percent-encoding of URLs
\* are computed character by character as the Python library computes them.
EXTENDS Integers, Sequences, FiniteSets, TLC

VARIABLES
    filename,    \* input of parse_episode_name (a filename stem)
    episode,     \* its result: the empty mapping or [season, episode]
    nfo_file,    \* input of get_matching_video: the path of one sidecar
    video,       \* its result: a path, or None
    root,        \* the disk: the children of SHOW_PATH, in iterdir() order
    kwargs,      \* the key/value pairs the current request was encoded from
    paramstring, \* sys.argv[2][1:] of the current invocation
    chosen,      \* the listed record whose item the host activated
    pc,          \* position of the current invocation
    route,       \* the branch router took
    error,       \* the exception that left router: [type, where], or NoError
    enumerated,  \* records returned by get_shows / get_episodes
    reads,       \* sidecar files handed to parse_nfo, in order
    calls        \* xbmcplugin calls of the current invocation, in order

vars == <<filename, episode, nfo_file, video, root, kwargs,
          paramstring, chosen, pc, route, error, enumerated, reads, calls>>

-----------------------------------------------------------------------------
\* Bounds of the model.

\* longest filename stem given to parse_episode_name
MaxStemLen == 5
\* most entries of the folder that get_episode_nfo is given on its own
MaxFiles == 3
\* most children of SHOW_PATH
MaxShows == 2
\* most episode files in a show folder below SHOW_PATH
MaxEpisodeFiles == 2
\* longest 'video' value of a play request made by the host directly
MaxVideoLen == 2

-----------------------------------------------------------------------------
\* Characters and text.

Digits == {"0", "1", "2", "3", "4", "5", "6", "7", "8", "9"}

Letters ==
    {"a", "b", "c", "d", "e", "f", "g", "h", "i", "j", "k", "l", "m",
     "n", "o", "p", "q", "r", "s", "t", "u", "v", "w", "x", "y", "z",
     "A", "B", "C", "D", "E", "F", "G", "H", "I", "J", "K", "L", "M",
     "N", "O", "P", "Q", "R", "S", "T", "U", "V", "W", "X", "Y", "Z"}

\* The printable ASCII characters, 0x20 .. 0x7E, in code order (the grave
\* accent, which a TLA+ string cannot hold, is written 0x60).
Ascii ==
    <<" ", "!", "\"", "#", "$", "%", "&", "'", "(", ")", "*", "+", ",", "-", ".", "/",
      "0", "1", "2", "3", "4", "5", "6", "7", "8", "9", ":", ";", "<", "=", ">", "?",
      "@", "A", "B", "C", "D", "E", "F", "G", "H", "I", "J", "K", "L", "M", "N", "O",
      "P", "Q", "R", "S", "T", "U", "V", "W", "X", "Y", "Z", "[", "\\", "]", "^", "_",
      "0x60", "a", "b", "c", "d", "e", "f", "g", "h", "i", "j", "k", "l", "m", "n", "o",
      "p", "q", "r", "s", "t", "u", "v", "w", "x", "y", "z", "{", "|", "}", "~">>

\* All texts over the characters cs of length at most n.
Texts(cs, n) == UNION {[1..k -> cs] : k \in 0..n}

\* Index of the first occurrence of character c in text at or after i, 0 if none.
RECURSIVE find(_, _, _)
find(text, c, i) ==
    IF i > Len(text) THEN 0
    ELSE IF text[i] = c THEN i
    ELSE find(text, c, i + 1)

\* Index of the last occurrence of character c in text at or before i, 0 if none.
RECURSIVE rfind(_, _, _)
rfind(text, c, i) ==
    IF i < 1 THEN 0
    ELSE IF text[i] = c THEN i
    ELSE rfind(text, c, i - 1)

-----------------------------------------------------------------------------
\* pathlib: the final component's suffix and stem, and with_suffix.

\* PurePath.suffix: from the last dot on, unless the dot is the first or the
\* last character of the name.
suffix(name) ==
    LET i == rfind(name, ".", Len(name))
    IN IF 1 < i /\ i < Len(name) THEN SubSeq(name, i, Len(name)) ELSE <<>>

\* PurePath.stem: the name without its suffix.
stem(name) ==
    LET i == rfind(name, ".", Len(name))
    IN IF 1 < i /\ i < Len(name) THEN SubSeq(name, 1, i - 1) ELSE name

\* PurePath.with_suffix(ext): the old suffix, if any, is dropped and ext appended.
with_suffix(name, ext) == stem(name) \o ext

-----------------------------------------------------------------------------
\* main.py constants.

VIDEO_FORMATS ==
    << <<".", "m", "k", "v">>, <<".", "m", "p", "4">>,
       <<".", "a", "v", "i">>, <<".", "w", "t", "v">> >>

NfoSuffix == <<".", "n", "f", "o">>

-----------------------------------------------------------------------------
\* parse_episode_name.

\* End of the longest run of digits of text that starts at i (i - 1 if none).
RECURSIVE digits_end(_, _)
digits_end(text, i) ==
    IF i <= Len(text) /\ text[i] \in Digits THEN digits_end(text, i + 1) ELSE i - 1

\* re.search(r'[xX](\d+)', text).group(1) with the marker letters given, scanning
\* from i: the first position holding a marker letter directly followed by a
\* digit decides; the group is the longest run of digits there. <<>> when
\* there is no match (a match never has an empty group).
RECURSIVE re_search(_, _, _)
re_search(markers, text, i) ==
    IF i >= Len(text) THEN <<>>
    ELSE IF text[i] \in markers /\ text[i + 1] \in Digits
         THEN SubSeq(text, i + 1, digits_end(text, i + 1))
         ELSE re_search(markers, text, i + 1)

\* A plausible slip: the episode pattern is searched only after the season match.
RECURSIVE re_search_from_match(_, _, _)
re_search_from_match(markers, text, i) ==
    IF i >= Len(text) THEN 0
    ELSE IF text[i] \in markers /\ text[i + 1] \in Digits
         THEN i
         ELSE re_search_from_match(markers, text, i + 1)

parse_episode_name_after_season(name) ==
    LET at == re_search_from_match({"s", "S"}, name, 1)
        season_no == re_search({"s", "S"}, name, 1)
        episode_no == IF at = 0 THEN <<>> ELSE re_search({"e", "E"}, name, at)
    IN IF season_no # <<>> /\ episode_no # <<>>
       THEN [season |-> season_no, episode |-> episode_no]
       ELSE <<>>

parse_episode_name(name) ==
    LET season_no == re_search({"s", "S"}, name, 1)
        episode_no == re_search({"e", "E"}, name, 1)
    IN IF season_no # <<>> /\ episode_no # <<>>
       THEN [season |-> season_no, episode |-> episode_no]
       ELSE <<>>

-----------------------------------------------------------------------------
\* Exceptions: an operator that can raise returns [err, val]; err is NoError
\* or the exception with the function that raised it.

NoError == [type |-> "none", where |-> "none"]

Raise(type, where) == [type |-> type, where |-> where]

None == <<>>

-----------------------------------------------------------------------------
\* The disk. An entry of a folder is [name, is_dir, text, files]: text is the
\* content of a file, files the entries of a folder in iterdir() order.
\* The content of a file is [wellformed, doc]: whether it is well-formed markup
\* and, if so, the mapping that the markup denotes.

SHOW_PATH ==
    <<"C", ":", "/", "t", "e", "s", "t", " ", "t", "v", "s", "h", "o", "w">>

joinpath(dir, name) == dir \o <<"/">> \o name

\* PurePath.name and PurePath.parent of a path below SHOW_PATH.
path_name(path) == SubSeq(path, rfind(path, "/", Len(path)) + 1, Len(path))

path_parent(path) == SubSeq(path, 1, rfind(path, "/", Len(path)) - 1)

\* The entries of the folder at path; <<>> when path is no folder.
folder(path) ==
    IF path = SHOW_PATH THEN root
    ELSE IF path_parent(path) = SHOW_PATH
              /\ \E i \in 1..Len(root) :
                    root[i].name = path_name(path) /\ root[i].is_dir
         THEN LET i == CHOOSE i \in 1..Len(root) : root[i].name = path_name(path)
              IN root[i].files
         ELSE <<>>

is_dir(path) ==
    \/ path = SHOW_PATH
    \/ /\ path_parent(path) = SHOW_PATH
       /\ \E i \in 1..Len(root) : root[i].name = path_name(path) /\ root[i].is_dir

\* Path.exists(): true of files and of folders alike.
exists(path) ==
    \/ path = SHOW_PATH
    \/ \E i \in 1..Len(folder(path_parent(path))) :
          folder(path_parent(path))[i].name = path_name(path)

\* Path.iterdir(): the paths of the entries, in the order the system lists them.
iterdir(path) ==
    IF is_dir(path)
    THEN [err |-> NoError,
          val |-> [i \in 1..Len(folder(path)) |-> joinpath(path, folder(path)[i].name)]]
    ELSE [err |-> Raise(IF exists(path) THEN "NotADirectoryError"
                                         ELSE "FileNotFoundError", "iterdir"),
          val |-> <<>>]

\* Path.read_text() of an existing file.
read_text(path) ==
    LET dir == folder(path_parent(path))
        i == CHOOSE i \in 1..Len(dir) : dir[i].name = path_name(path)
    IN dir[i].text

-----------------------------------------------------------------------------
\* get_matching_video.

\* The first of the formats, from the i-th on, under which the video exists.
RECURSIVE matching_video_from(_, _, _)
matching_video_from(formats, file, i) ==
    IF i > Len(formats) THEN None
    ELSE IF exists(joinpath(path_parent(file), with_suffix(path_name(file), formats[i])))
         THEN joinpath(path_parent(file), with_suffix(path_name(file), formats[i]))
         ELSE matching_video_from(formats, file, i + 1)

\* A plausible slip: the formats are tried in the reverse order.
RECURSIVE matching_video_down(_, _, _)
matching_video_down(formats, file, i) ==
    IF i < 1 THEN None
    ELSE IF exists(joinpath(path_parent(file), with_suffix(path_name(file), formats[i])))
         THEN joinpath(path_parent(file), with_suffix(path_name(file), formats[i]))
         ELSE matching_video_down(formats, file, i - 1)

get_matching_video_last_wins(file) ==
    matching_video_down(VIDEO_FORMATS, file, Len(VIDEO_FORMATS))

get_matching_video(file) == matching_video_from(VIDEO_FORMATS, file, 1)

-----------------------------------------------------------------------------
\* parse_nfo.

\* xmltodict.parse: the mapping of a well-formed text, ParseError otherwise.
xmltodict_parse(text) ==
    IF text.wellformed
    THEN [err |-> NoError, val |-> text.doc]
    ELSE [err |-> Raise("ParseError", "parse_nfo"), val |-> <<>>]

\* A plausible slip: a malformed sidecar is read as an empty mapping.
parse_nfo_lenient(file) ==
    IF read_text(file).wellformed
    THEN [err |-> NoError, val |-> read_text(file).doc]
    ELSE [err |-> NoError, val |-> <<>>]

parse_nfo(file) == xmltodict_parse(read_text(file))

-----------------------------------------------------------------------------
\* get_episode_nfo: [err, val, reads], val the episode_list and reads the
\* files given to parse_nfo, in order.

RECURSIVE episode_nfo_loop(_, _, _, _)
episode_nfo_loop(files, i, episode_list, read) ==
    IF i > Len(files) THEN [err |-> NoError, val |-> episode_list, reads |-> read]
    ELSE LET episode_file == files[i]
             name_match == parse_episode_name(stem(path_name(episode_file)))
             video_match == get_matching_video(episode_file)
             details == parse_nfo(episode_file)
         IN IF suffix(path_name(episode_file)) # NfoSuffix
            THEN episode_nfo_loop(files, i + 1, episode_list, read)
            ELSE IF name_match = <<>>
            THEN episode_nfo_loop(files, i + 1, episode_list, read)
            ELSE IF video_match = None
            THEN episode_nfo_loop(files, i + 1, episode_list, read)
            ELSE IF details.err # NoError
            THEN [err |-> details.err, val |-> <<>>,
                  reads |-> Append(read, episode_file)]
            ELSE episode_nfo_loop(files, i + 1,
                     Append(episode_list,
                            [season |-> name_match.season,
                             episode |-> name_match.episode,
                             url |-> video_match,
                             details |-> details.val]),
                     Append(read, episode_file))

\* A plausible slip: the sidecar is parsed before the name and the video are matched.
RECURSIVE episode_nfo_loop_parse_first(_, _, _, _)
episode_nfo_loop_parse_first(files, i, episode_list, read) ==
    IF i > Len(files) THEN [err |-> NoError, val |-> episode_list, reads |-> read]
    ELSE LET episode_file == files[i]
             name_match == parse_episode_name(stem(path_name(episode_file)))
             video_match == get_matching_video(episode_file)
             details == parse_nfo(episode_file)
         IN IF suffix(path_name(episode_file)) # NfoSuffix
            THEN episode_nfo_loop_parse_first(files, i + 1, episode_list, read)
            ELSE IF details.err # NoError
            THEN [err |-> details.err, val |-> <<>>,
                  reads |-> Append(read, episode_file)]
            ELSE IF name_match = <<>> \/ video_match = None
            THEN episode_nfo_loop_parse_first(files, i + 1, episode_list,
                                              Append(read, episode_file))
            ELSE episode_nfo_loop_parse_first(files, i + 1,
                     Append(episode_list,
                            [season |-> name_match.season,
                             episode |-> name_match.episode,
                             url |-> video_match,
                             details |-> details.val]),
                     Append(read, episode_file))

get_episode_nfo_parse_first(dir) ==
    IF iterdir(dir).err # NoError
    THEN [err |-> iterdir(dir).err, val |-> <<>>, reads |-> <<>>]
    ELSE episode_nfo_loop_parse_first(iterdir(dir).val, 1, <<>>, <<>>)

\* A plausible slip: the video match is not required.
RECURSIVE episode_nfo_loop_any_video(_, _, _, _)
episode_nfo_loop_any_video(files, i, episode_list, read) ==
    IF i > Len(files) THEN [err |-> NoError, val |-> episode_list, reads |-> read]
    ELSE LET episode_file == files[i]
             name_match == parse_episode_name(stem(path_name(episode_file)))
             details == parse_nfo(episode_file)
         IN IF suffix(path_name(episode_file)) # NfoSuffix \/ name_match = <<>>
            THEN episode_nfo_loop_any_video(files, i + 1, episode_list, read)
            ELSE IF details.err # NoError
            THEN [err |-> details.err, val |-> <<>>,
                  reads |-> Append(read, episode_file)]
            ELSE episode_nfo_loop_any_video(files, i + 1,
                     Append(episode_list,
                            [season |-> name_match.season,
                             episode |-> name_match.episode,
                             url |-> with_suffix(episode_file, VIDEO_FORMATS[1]),
                             details |-> details.val]),
                     Append(read, episode_file))

get_episode_nfo_any_video(dir) ==
    IF iterdir(dir).err # NoError
    THEN [err |-> iterdir(dir).err, val |-> <<>>, reads |-> <<>>]
    ELSE episode_nfo_loop_any_video(iterdir(dir).val, 1, <<>>, <<>>)

get_episode_nfo(dir) ==
    IF iterdir(dir).err # NoError
    THEN [err |-> iterdir(dir).err, val |-> <<>>, reads |-> <<>>]
    ELSE episode_nfo_loop(iterdir(dir).val, 1, <<>>, <<>>)

-----------------------------------------------------------------------------
\* Inputs: file contents, file names and folders.

Malformed == [wellformed |-> FALSE, doc |-> <<>>]

\* A file that is no markup at all (a video, an image).
Binary == Malformed

WellFormed(doc) == [wellformed |-> TRUE, doc |-> doc]

File(name, text) == [name |-> name, is_dir |-> FALSE, text |-> text, files |-> <<>>]

Folder(name, files) == [name |-> name, is_dir |-> TRUE, text |-> Binary, files |-> files]

\* Sequences of at most n of the entries, no two with the same name.
Folders(entries, n) ==
    {files \in UNION {[1..k -> entries] : k \in 0..n} :
        \A i, j \in 1..Len(files) : i # j => files[i].name # files[j].name}

EpisodeFull ==
    WellFormed([episodedetails |->
        [title |-> <<"P", "i", "l", "o", "t">>, plot |-> <<"P", "i", "l", "o", "t">>,
         year |-> <<"2", "0", "2", "3">>, aired |-> <<"2", "0", "2", "3">>]])

EpisodeNoTitle ==
    WellFormed([episodedetails |-> [plot |-> <<"P", "i", "l", "o", "t">>, year |-> <<"2", "0", "2", "3">>, aired |-> <<"2", "0", "2", "3">>]])

EpisodeTitleOnly == WellFormed([episodedetails |-> [title |-> <<"P", "i", "l", "o", "t">>]])

\* The entries a folder of episodes is drawn from when get_episode_nfo and
\* get_matching_video are run on their own.
EpisodeEntries ==
    {File(<<"s", "1", "e", "1", ".", "n", "f", "o">>, EpisodeFull), File(<<"s", "1", "e", "1", ".", "n", "f", "o">>, Malformed),
     File(<<"s", "1", "e", "1", ".", "m", "k", "v">>, Binary), File(<<"s", "1", "e", "1", ".", "m", "p", "4">>, Binary), File(<<"s", "1", "e", "1", ".", "w", "t", "v">>, Binary),
     File(<<"e", "2", ".", "n", "f", "o">>, EpisodeFull), File(<<"e", "2", ".", "n", "f", "o">>, Malformed), File(<<"e", "2", ".", "m", "p", "4">>, Binary),
     File(<<"E", "2", "S", "1", ".", "n", "f", "o">>, EpisodeFull), File(<<"E", "2", "S", "1", ".", "n", "f", "o">>, Malformed),
     File(<<"E", "2", "S", "1", ".", "a", "v", "i">>, Binary)}

ShowA == <<"A">>

-----------------------------------------------------------------------------
\* The pattern matcher on its own.

StemChars == {"s", "S", "e", "E", "0", "1", "x"}

Unused ==
    /\ filename = <<>> /\ episode = <<>> /\ nfo_file = None /\ video = None

Idle ==
    /\ kwargs = <<>> /\ paramstring = <<>> /\ chosen = [kind |-> "none", record |-> <<>>]
    /\ route = "none" /\ error = NoError
    /\ enumerated = <<>> /\ reads = <<>> /\ calls = <<>>

InitName ==
    /\ filename \in Texts(StemChars, MaxStemLen)
    /\ episode = <<>> /\ nfo_file = None /\ video = None
    /\ root = <<>>
    /\ pc = "start"
    /\ Idle

ParseEpisodeName ==
    /\ pc = "start"
    /\ episode' = parse_episode_name(filename)
    /\ pc' = "parsed"
    /\ UNCHANGED <<filename, nfo_file, video, root, kwargs, paramstring, chosen,
                   route, error, enumerated, reads, calls>>

NextName == ParseEpisodeName

SpecName == InitName /\ [][NextName]_vars

-----------------------------------------------------------------------------
\* The episode matcher and the episode enumerator on one folder.

InitDir ==
    /\ Unused
    /\ \E files \in Folders(EpisodeEntries, MaxFiles) : root = <<Folder(ShowA, files)>>
    /\ pc = "start"
    /\ Idle

\* get_matching_video(nfo_file) for a sidecar of the folder.
GetMatchingVideo ==
    /\ pc = "start"
    /\ \E file \in {iterdir(joinpath(SHOW_PATH, ShowA)).val[i] :
                       i \in 1..Len(iterdir(joinpath(SHOW_PATH, ShowA)).val)} :
          /\ suffix(path_name(file)) = NfoSuffix
          /\ nfo_file' = file
          /\ video' = get_matching_video(file)
    /\ pc' = "matched"
    /\ UNCHANGED <<filename, episode, root, kwargs, paramstring, chosen,
                   route, error, enumerated, reads, calls>>

\* get_episode_nfo(episodes_dir) for the folder.
GetEpisodeNfo ==
    /\ pc = "start"
    /\ LET r == get_episode_nfo(joinpath(SHOW_PATH, ShowA))
       IN /\ enumerated' = r.val
          /\ reads' = r.reads
          /\ error' = r.err
    /\ pc' = IF error' = NoError THEN "listed" ELSE "raised"
    /\ UNCHANGED <<filename, episode, nfo_file, video, root, kwargs, paramstring,
                   chosen, route, calls>>

NextDir == GetMatchingVideo \/ GetEpisodeNfo

SpecDir == InitDir /\ [][NextDir]_vars

-----------------------------------------------------------------------------
\* Properties of the pattern matcher, the episode matcher and the episode
\* enumerator, stated on the texts and on the disk, not with the operators
\* above.

\* Position i of text holds a marker: one of the letters, then a digit.
Marker(text, letters, i) ==
    i < Len(text) /\ text[i] \in letters /\ text[i + 1] \in Digits

HasMarker(text, letters) == \E i \in 1..Len(text) : Marker(text, letters, i)

\* The digits NN of the marker at position i: all of the digits that follow it.
MarkerDigits(text, i) ==
    LET k == CHOOSE k \in (i + 1)..Len(text) :
                 /\ \A m \in (i + 1)..k : text[m] \in Digits
                 /\ k = Len(text) \/ text[k + 1] \notin Digits
    IN SubSeq(text, i + 1, k)

\* The digits of the first marker of text.
FirstMarkerDigits(text, letters) ==
    LET i == CHOOSE i \in 1..Len(text) :
                 /\ Marker(text, letters, i)
                 /\ \A j \in 1..(i - 1) : ~Marker(text, letters, j)
    IN MarkerDigits(text, i)

\* C2: a stem that holds an sNN marker and an eMM marker, in either order and
\* with anything between them, yields season NN and episode MM (of the first
\* marker of each kind); a stem that lacks either marker yields the empty mapping.
C2_ParseEpisodeName ==
    pc = "parsed" =>
        IF HasMarker(filename, {"s", "S"}) /\ HasMarker(filename, {"e", "E"})
        THEN episode = [season |-> FirstMarkerDigits(filename, {"s", "S"}),
                        episode |-> FirstMarkerDigits(filename, {"e", "E"})]
        ELSE episode = <<>>

\* C2 happens: the episode marker comes before the season marker, with a
\* separator between them, and both numbers are returned.
C2_Witness ==
    /\ pc = "parsed"
    /\ filename \in {<<"e", "1", "x", "S", "0">>, <<"E", "1", "-", "s", "0">>}
    /\ episode = [season |-> <<"0">>, episode |-> <<"1">>]

\* The names in the folder that the enumerator and the matcher are run on.
ScannedDir == joinpath(SHOW_PATH, ShowA)

OnDisk(name) == \E i \in 1..Len(root[1].files) : root[1].files[i].name = name

TextOnDisk(name) ==
    LET i == CHOOSE i \in 1..Len(root[1].files) : root[1].files[i].name = name
    IN root[1].files[i].text

\* A name without its last four characters (its extension of three letters).
Base(name) == SubSeq(name, 1, Len(name) - 4)

Ext(name) == SubSeq(name, Len(name) - 3, Len(name))

InScannedDir(path) ==
    /\ Len(path) > Len(ScannedDir) + 1
    /\ SubSeq(path, 1, Len(ScannedDir) + 1) = ScannedDir \o <<"/">>

NameOf(path) == SubSeq(path, Len(ScannedDir) + 2, Len(path))

\* The k-th candidate video of a sidecar.
Candidate(sidecar, k) == Base(sidecar) \o VIDEO_FORMATS[k]

\* C6: get_matching_video returns the sidecar path with its extension replaced
\* by the first of .mkv, .mp4, .avi, .wtv under which a file exists, and None
\* exactly when none of the four exists.
C6_MatchingVideo ==
    pc = "matched" =>
        IF \E k \in 1..4 : OnDisk(Candidate(NameOf(nfo_file), k))
        THEN \E k \in 1..4 :
                /\ OnDisk(Candidate(NameOf(nfo_file), k))
                /\ \A j \in 1..(k - 1) : ~OnDisk(Candidate(NameOf(nfo_file), j))
                /\ video = ScannedDir \o <<"/">> \o Candidate(NameOf(nfo_file), k)
        ELSE video = None

\* C6 happens: two formats coexist and the one listed first is returned.
C6_Witness ==
    /\ pc = "matched"
    /\ OnDisk(Candidate(NameOf(nfo_file), 2))
    /\ OnDisk(Candidate(NameOf(nfo_file), 4))
    /\ ~OnDisk(Candidate(NameOf(nfo_file), 1))
    /\ video = ScannedDir \o <<"/">> \o Candidate(NameOf(nfo_file), 2)

\* C1: every record of get_episode_nfo has a url that exists in the scanned
\* folder, with a known video extension, beside a .nfo file of the same base
\* name; a .nfo file without a video of its base name gives no record.
C1_EpisodeRecords ==
    pc = "listed" =>
        /\ \A r \in 1..Len(enumerated) :
              /\ InScannedDir(enumerated[r].url)
              /\ OnDisk(NameOf(enumerated[r].url))
              /\ \E k \in 1..4 : Ext(NameOf(enumerated[r].url)) = VIDEO_FORMATS[k]
              /\ OnDisk(Base(NameOf(enumerated[r].url)) \o NfoSuffix)
        /\ \A i \in 1..Len(root[1].files) :
              LET name == root[1].files[i].name
              IN (Ext(name) = NfoSuffix /\ \A k \in 1..4 : ~OnDisk(Candidate(name, k)))
                 => \A r \in 1..Len(enumerated) :
                       Base(NameOf(enumerated[r].url)) # Base(name)

\* C1 happens: one sidecar has its video and gives a record, another sidecar
\* with both markers has none and gives no record.
C1_Witness ==
    /\ pc = "listed"
    /\ Len(enumerated) = 1
    /\ \E i \in 1..Len(root[1].files) :
          LET name == root[1].files[i].name
          IN /\ Ext(name) = NfoSuffix
             /\ HasMarker(Base(name), {"s", "S"}) /\ HasMarker(Base(name), {"e", "E"})
             /\ \A k \in 1..4 : ~OnDisk(Candidate(name, k))

\* C9: a sidecar is parsed only when it has the .nfo suffix, its stem holds
\* both markers and its video exists; so a malformed .nfo that fails the name
\* or the video match is never parsed and raises nothing, and a file without
\* the .nfo suffix is never parsed.
C9_ParseLast ==
    pc \in {"listed", "raised"} =>
        /\ \A r \in 1..Len(reads) :
              LET name == NameOf(reads[r])
              IN /\ InScannedDir(reads[r])
                 /\ Ext(name) = NfoSuffix
                 /\ HasMarker(Base(name), {"s", "S"})
                 /\ HasMarker(Base(name), {"e", "E"})
                 /\ \E k \in 1..4 : OnDisk(Candidate(name, k))
        /\ error # NoError =>
              /\ error.type = "ParseError"
              /\ reads # <<>>
              /\ ~TextOnDisk(NameOf(reads[Len(reads)])).wellformed

\* C9 happens: a malformed sidecar that fails a match is passed over without an
\* error, while another sidecar of the folder is parsed.
C9_Witness ==
    /\ pc = "listed"
    /\ Len(reads) = 1
    /\ \E i \in 1..Len(root[1].files) :
          /\ Ext(root[1].files[i].name) = NfoSuffix
          /\ ~root[1].files[i].text.wellformed

-----------------------------------------------------------------------------
\* urllib.parse: quote, unquote, urlencode, parse_qsl.

HexDigits == <<"0", "1", "2", "3", "4", "5", "6", "7", "8", "9",
               "A", "B", "C", "D", "E", "F">>

ord(c) == (CHOOSE i \in 1..Len(Ascii) : Ascii[i] = c) + 31

\* The character of a code; a code outside the printable range is one of two
\* stand-ins (a control character, or the replacement character that an
\* undecodable byte becomes).
chr(n) ==
    IF 32 <= n /\ n <= 126 THEN Ascii[n - 31]
    ELSE IF n < 128 THEN "0x00" ELSE "0xFFFD"

\* Characters quote() never escapes.
AlwaysSafe == Letters \cup Digits \cup {"_", ".", "-", "~"}

\* quote(text, safe=''): every character outside AlwaysSafe becomes %XX.
RECURSIVE quote(_)
quote(text) ==
    IF text = <<>> THEN <<>>
    ELSE (IF Head(text) \in AlwaysSafe
          THEN <<Head(text)>>
          ELSE <<"%", HexDigits[(ord(Head(text)) \div 16) + 1],
                      HexDigits[(ord(Head(text)) % 16) + 1]>>)
         \o quote(Tail(text))

IsHex(c) == c \in Digits \cup {"A", "B", "C", "D", "E", "F", "a", "b", "c", "d", "e", "f"}

HexValue(c) ==
    IF c \in Digits THEN (CHOOSE i \in 1..10 : HexDigits[i] = c) - 1
    ELSE IF c \in {"A", "a"} THEN 10
    ELSE IF c \in {"B", "b"} THEN 11
    ELSE IF c \in {"C", "c"} THEN 12
    ELSE IF c \in {"D", "d"} THEN 13
    ELSE IF c \in {"E", "e"} THEN 14
    ELSE 15

\* unquote(text): %XX with two hex digits becomes the character; any other
\* percent sign stays.
RECURSIVE unquote(_)
unquote(text) ==
    IF text = <<>> THEN <<>>
    ELSE IF Head(text) = "%" /\ Len(text) >= 3 /\ IsHex(text[2]) /\ IsHex(text[3])
         THEN <<chr(16 * HexValue(text[2]) + HexValue(text[3]))>>
              \o unquote(SubSeq(text, 4, Len(text)))
         ELSE <<Head(text)>> \o unquote(Tail(text))

\* text.replace('+', ' ')
plus_to_space(text) == [i \in 1..Len(text) |-> IF text[i] = "+" THEN " " ELSE text[i]]

\* A plausible slip: quote_via with '+' left alone (safe='+').
RECURSIVE quote_plus_safe(_)
quote_plus_safe(text) ==
    IF text = <<>> THEN <<>>
    ELSE (IF Head(text) \in AlwaysSafe \cup {"+"}
          THEN <<Head(text)>>
          ELSE <<"%", HexDigits[(ord(Head(text)) \div 16) + 1],
                      HexDigits[(ord(Head(text)) % 16) + 1]>>)
         \o quote_plus_safe(Tail(text))

\* urlencode(kwargs, quote_via=quote) of a sequence of <<key, value>> pairs.
RECURSIVE urlencode(_)
urlencode(query) ==
    IF query = <<>> THEN <<>>
    ELSE quote(query[1][1]) \o <<"=">> \o quote(query[1][2])
         \o (IF Len(query) > 1 THEN <<"&">> \o urlencode(Tail(query)) ELSE <<>>)

\* text.split(sep): the pieces of text between the separators.
RECURSIVE split(_, _)
split(text, sep) ==
    LET i == find(text, sep, 1)
    IN IF i = 0 THEN <<text>>
       ELSE <<SubSeq(text, 1, i - 1)>> \o split(SubSeq(text, i + 1, Len(text)), sep)

\* parse_qsl(qs): the <<name, value>> pairs of the fields name=value, in order;
\* a field without '=' or with an empty value is dropped (keep_blank_values
\* is off, strict_parsing is off).
RECURSIVE parse_fields(_)
parse_fields(fields) ==
    IF fields = <<>> THEN <<>>
    ELSE LET field == Head(fields)
             eq == find(field, "=", 1)
             name == SubSeq(field, 1, eq - 1)
             value == SubSeq(field, eq + 1, Len(field))
         IN (IF field = <<>> \/ eq = 0 \/ value = <<>>
             THEN <<>>
             ELSE << <<unquote(plus_to_space(name)), unquote(plus_to_space(value))>> >>)
            \o parse_fields(Tail(fields))

parse_qsl(qs) == parse_fields(split(qs, "&"))

\* dict(pairs): the last pair of a key gives its value.
dict(pairs) ==
    [key \in {pairs[i][1] : i \in 1..Len(pairs)} |->
        LET last == CHOOSE i \in 1..Len(pairs) :
                        /\ pairs[i][1] = key
                        /\ \A j \in (i + 1)..Len(pairs) : pairs[j][1] # key
        IN pairs[last][2]]

\* Path(text): repeated and trailing separators are dropped.
RECURSIVE Path(_)
Path(text) ==
    IF Len(text) <= 1 THEN text
    ELSE IF text[Len(text)] = "/" THEN Path(SubSeq(text, 1, Len(text) - 1))
    ELSE IF \E i \in 1..(Len(text) - 1) : text[i] = "/" /\ text[i + 1] = "/"
         THEN LET i == CHOOSE i \in 1..(Len(text) - 1) : text[i] = "/" /\ text[i + 1] = "/"
              IN Path(SubSeq(text, 1, i) \o SubSeq(text, i + 2, Len(text)))
         ELSE text

\* str(path)
str(path) == path

-----------------------------------------------------------------------------
\* get_url.

URL == <<"p", "l", "u", "g", "i", "n", ":", "/", "/", "p", "l", "u", "g", "i", "n", ".", "v", "i", "d", "e", "o", ".", "e", "x", "t", "r", "a", "_", "s", "h", "o", "w", "s", "/">>

K_action == <<"a", "c", "t", "i", "o", "n">>

K_show_dir == <<"s", "h", "o", "w", "_", "d", "i", "r">>

K_show_title == <<"s", "h", "o", "w", "_", "t", "i", "t", "l", "e">>

K_video == <<"v", "i", "d", "e", "o">>

V_listing == <<"l", "i", "s", "t", "i", "n", "g">>

V_play == <<"p", "l", "a", "y">>

get_url_plus_safe(query) ==
    LET RECURSIVE enc(_)
        enc(q) ==
            IF q = <<>> THEN <<>>
            ELSE quote_plus_safe(q[1][1]) \o <<"=">> \o quote_plus_safe(q[1][2])
                 \o (IF Len(q) > 1 THEN <<"&">> \o enc(Tail(q)) ELSE <<>>)
    IN URL \o <<"?">> \o enc(query)

get_url(query) == URL \o <<"?">> \o urlencode(query)

-----------------------------------------------------------------------------
\* Mappings (dict): functions on their keys; d.get(key, default).

get(d, key, default) == IF key \in DOMAIN d THEN d[key] ELSE default

\* d[key] = value
put(d, key, value) == [k \in DOMAIN d \cup {key} |-> IF k = key THEN value ELSE d[k]]

-----------------------------------------------------------------------------
\* get_tvshow_nfo, get_art, get_shows.

TvshowNfo == <<"t", "v", "s", "h", "o", "w", ".", "n", "f", "o">>

\* The first tvshow.nfo among files, from the i-th on, parsed; val is None
\* when there is none.
RECURSIVE tvshow_nfo_loop(_, _)
tvshow_nfo_loop(files, i) ==
    IF i > Len(files) THEN [err |-> NoError, val |-> None, reads |-> <<>>]
    ELSE IF path_name(files[i]) = TvshowNfo
         THEN [err |-> parse_nfo(files[i]).err, val |-> parse_nfo(files[i]).val,
               reads |-> <<files[i]>>]
         ELSE tvshow_nfo_loop(files, i + 1)

get_tvshow_nfo(show) ==
    IF iterdir(show).err # NoError
    THEN [err |-> iterdir(show).err, val |-> None, reads |-> <<>>]
    ELSE tvshow_nfo_loop(iterdir(show).val, 1)

\* The first file whose stem is art_type; the test of the suffix,
\* (file.suffix == '.jpg' or '.png'), is true of every suffix.
RECURSIVE art_loop(_, _, _)
art_loop(art_type, files, i) ==
    IF i > Len(files) THEN None
    ELSE IF stem(path_name(files[i])) = art_type
              /\ (suffix(path_name(files[i])) = <<".", "j", "p", "g">> \/ TRUE)
         THEN files[i]
         ELSE art_loop(art_type, files, i + 1)

get_art(art_type, art_dir) == art_loop(art_type, iterdir(art_dir).val, 1)

ArtTypes == <<<<"b", "a", "n", "n", "e", "r">>, <<"f", "a", "n", "a", "r", "t">>, <<"p", "o", "s", "t", "e", "r">>>>

\* show_data['art'] after the loop over the art types, from the i-th on.
RECURSIVE art_of(_, _, _)
art_of(show, art, i) ==
    IF i > Len(ArtTypes) THEN art
    ELSE art_of(show,
                IF get_art(ArtTypes[i], show) # None
                THEN put(art, ArtTypes[i], get_art(ArtTypes[i], show))
                ELSE art,
                i + 1)

\* The loop of get_shows over the children of SHOW_PATH, from the i-th on.
RECURSIVE shows_loop(_, _, _, _)
shows_loop(children, i, shows, read) ==
    IF i > Len(children) THEN [err |-> NoError, val |-> shows, reads |-> read]
    ELSE LET show == children[i]
             show_data == get_tvshow_nfo(show)
         IN IF ~is_dir(show)
            THEN shows_loop(children, i + 1, shows, read)
            ELSE IF show_data.err # NoError
            THEN [err |-> show_data.err, val |-> <<>>, reads |-> read \o show_data.reads]
            ELSE IF show_data.val = None
            THEN \* show_data['art'] = {} on None
                 [err |-> Raise("TypeError", "get_shows"), val |-> <<>>,
                  reads |-> read \o show_data.reads]
            ELSE shows_loop(children, i + 1,
                     Append(shows,
                            put(put(show_data.val, "art", art_of(show, <<>>, 1)),
                                "dir", show)),
                     read \o show_data.reads)

\* A plausible slip: the listing stops at the first folder without a sidecar.
RECURSIVE shows_loop_stop(_, _, _, _)
shows_loop_stop(children, i, shows, read) ==
    IF i > Len(children) THEN [err |-> NoError, val |-> shows, reads |-> read]
    ELSE LET show == children[i]
             show_data == get_tvshow_nfo(show)
         IN IF ~is_dir(show)
            THEN shows_loop_stop(children, i + 1, shows, read)
            ELSE IF show_data.err # NoError
            THEN [err |-> show_data.err, val |-> <<>>, reads |-> read \o show_data.reads]
            ELSE IF show_data.val = None
            THEN [err |-> NoError, val |-> shows, reads |-> read]
            ELSE shows_loop_stop(children, i + 1,
                     Append(shows,
                            put(put(show_data.val, "art", art_of(show, <<>>, 1)),
                                "dir", show)),
                     read \o show_data.reads)

get_shows ==
    IF iterdir(SHOW_PATH).err # NoError
    THEN [err |-> iterdir(SHOW_PATH).err, val |-> <<>>, reads |-> <<>>]
    ELSE shows_loop(iterdir(SHOW_PATH).val, 1, <<>>, <<>>)

get_episodes(show_dir) == get_episode_nfo(show_dir)

-----------------------------------------------------------------------------
\* The presentation adapter: xbmcgui.ListItem and the xbmcplugin calls.

ListItem(label) == [label |-> label, art |-> <<>>, info |-> <<>>, playable |-> FALSE, path |-> None]

setPluginCategory(category) == [op |-> "setPluginCategory", category |-> category]

setContent(content) == [op |-> "setContent", content |-> content]

addDirectoryItem(url, list_item, is_folder) ==
    [op |-> "addDirectoryItem", url |-> url, list_item |-> list_item, is_folder |-> is_folder]

addSortMethod(method) == [op |-> "addSortMethod", method |-> method]

endOfDirectory == [op |-> "endOfDirectory"]

setResolvedUrl(succeeded, list_item) ==
    [op |-> "setResolvedUrl", succeeded |-> succeeded, list_item |-> list_item]

\* add_show_data: the info tag of a show; every key has a default.
add_show_data(show_info) ==
    [mediatype |-> "tvshow",
     title |-> get(show_info, "title", <<>>),
     genres |-> get(show_info, "genre", <<>>),
     plot |-> get(show_info, "plot", <<>>),
     premiered |-> get(show_info, "premiered", <<>>)]

\* int(text) of a decimal numeral; ValueError otherwise.
RECURSIVE int(_)
int(text) ==
    IF text = <<>> THEN 0
    ELSE 10 * int(SubSeq(text, 1, Len(text) - 1))
         + ((CHOOSE i \in 1..10 : HexDigits[i] = text[Len(text)]) - 1)

\* add_episode_data: the info tag of an episode; the year is set only when
\* it is there, and int() of it may raise.
add_episode_data(episode_info) ==
    IF get(episode_info, "year", <<>>) # <<>>
       /\ \E i \in 1..Len(episode_info.year) : episode_info.year[i] \notin Digits
    THEN [err |-> Raise("ValueError", "add_episode_data"), val |-> <<>>]
    ELSE [err |-> NoError,
          val |-> [mediatype |-> "episode",
                   title |-> get(episode_info, "title", <<>>),
                   plot |-> get(episode_info, "plot", <<>>),
                   year |-> IF get(episode_info, "year", <<>>) # <<>>
                            THEN int(episode_info.year) ELSE 0,
                   aired |-> get(episode_info, "aired", None)]]

-----------------------------------------------------------------------------
\* list_shows: [err, calls, enumerated, reads].

\* The loop of list_shows over the shows, from the i-th on.
RECURSIVE list_shows_loop(_, _, _)
list_shows_loop(shows, i, done) ==
    IF i > Len(shows) THEN [err |-> NoError, calls |-> done]
    ELSE LET show_info == shows[i]
         IN IF "tvshow" \notin DOMAIN show_info
               \/ "title" \notin DOMAIN show_info.tvshow
               \/ <<"p", "o", "s", "t", "e", "r">> \notin DOMAIN show_info.art
               \/ <<"f", "a", "n", "a", "r", "t">> \notin DOMAIN show_info.art
            THEN [err |-> Raise("KeyError", "list_shows"), calls |-> done]
            ELSE list_shows_loop(shows, i + 1,
                    Append(done,
                        addDirectoryItem(
                            get_url(<< <<K_action, V_listing>>,
                                       <<K_show_dir, str(show_info.dir)>>,
                                       <<K_show_title, show_info.tvshow.title>> >>),
                            [ListItem(show_info.tvshow.title) EXCEPT
                                !.art = [poster |-> str(show_info.art[<<"p", "o", "s", "t", "e", "r">>]),
                                         fanart |-> str(show_info.art[<<"f", "a", "n", "a", "r", "t">>])],
                                !.info = add_show_data(show_info.tvshow)],
                            TRUE)))

list_shows ==
    LET before == <<setPluginCategory(<<"T", "V", " ", "S", "h", "o", "w", "s", " ">>), setContent(<<"t", "v", "s", "h", "o", "w", "s">>)>>
        shows == get_shows
        items == list_shows_loop(shows.val, 1, before)
    IN IF shows.err # NoError
       THEN [err |-> shows.err, calls |-> before, enumerated |-> <<>>,
             reads |-> shows.reads]
       ELSE IF items.err # NoError
       THEN [err |-> items.err, calls |-> items.calls, enumerated |-> shows.val,
             reads |-> shows.reads]
       ELSE [err |-> NoError,
             calls |-> items.calls \o <<addSortMethod("LABEL_IGNORE_THE"), endOfDirectory>>,
             enumerated |-> shows.val, reads |-> shows.reads]

-----------------------------------------------------------------------------
\* list_episodes: [err, calls, enumerated, reads].

\* The loop of list_episodes over the episodes, from the i-th on.
RECURSIVE list_episodes_loop(_, _, _)
list_episodes_loop(episodes, i, done) ==
    IF i > Len(episodes) THEN [err |-> NoError, calls |-> done]
    ELSE LET item == episodes[i]
             info == add_episode_data(item.details.episodedetails)
         IN IF "episodedetails" \notin DOMAIN item.details
               \/ "title" \notin DOMAIN item.details.episodedetails
            THEN [err |-> Raise("KeyError", "list_episodes"), calls |-> done]
            ELSE IF info.err # NoError
            THEN [err |-> info.err, calls |-> done]
            ELSE list_episodes_loop(episodes, i + 1,
                    Append(done,
                        addDirectoryItem(
                            get_url(<< <<K_action, V_play>>, <<K_video, str(item.url)>> >>),
                            [ListItem(item.details.episodedetails.title) EXCEPT
                                !.info = info.val, !.playable = TRUE],
                            FALSE)))

\* A plausible slip: a failure of the enumerator is swallowed and the folder
\* is finished empty.
list_episodes_swallow(show_path, show_title) ==
    LET episodes == get_episodes(show_path)
        before == <<setPluginCategory(show_title), setContent(<<"e", "p", "i", "s", "o", "d", "e", "s">>)>>
        items == list_episodes_loop(episodes.val, 1, before)
    IN IF episodes.err # NoError
       THEN [err |-> NoError, calls |-> before \o <<endOfDirectory>>,
             enumerated |-> <<>>, reads |-> episodes.reads]
       ELSE IF items.err # NoError
       THEN [err |-> items.err, calls |-> items.calls, enumerated |-> episodes.val,
             reads |-> episodes.reads]
       ELSE [err |-> NoError,
             calls |-> items.calls
                       \o <<addSortMethod("LABEL_IGNORE_THE"),
                            addSortMethod("VIDEO_YEAR"), endOfDirectory>>,
             enumerated |-> episodes.val, reads |-> episodes.reads]

\* A plausible slip: the folder is finished before the sort methods are added.
list_episodes_end_early(show_path, show_title) ==
    LET episodes == get_episodes(show_path)
        before == <<setPluginCategory(show_title), setContent(<<"e", "p", "i", "s", "o", "d", "e", "s">>)>>
        items == list_episodes_loop(episodes.val, 1, before)
    IN IF episodes.err # NoError
       THEN [err |-> episodes.err, calls |-> <<>>, enumerated |-> <<>>,
             reads |-> episodes.reads]
       ELSE IF items.err # NoError
       THEN [err |-> items.err, calls |-> items.calls, enumerated |-> episodes.val,
             reads |-> episodes.reads]
       ELSE [err |-> NoError,
             calls |-> items.calls
                       \o <<endOfDirectory, addSortMethod("LABEL_IGNORE_THE"),
                            addSortMethod("VIDEO_YEAR")>>,
             enumerated |-> episodes.val, reads |-> episodes.reads]

list_episodes(show_path, show_title) ==
    LET episodes == get_episodes(show_path)
        before == <<setPluginCategory(show_title), setContent(<<"e", "p", "i", "s", "o", "d", "e", "s">>)>>
        items == list_episodes_loop(episodes.val, 1, before)
    IN IF episodes.err # NoError
       THEN [err |-> episodes.err, calls |-> <<>>, enumerated |-> <<>>,
             reads |-> episodes.reads]
       ELSE IF items.err # NoError
       THEN [err |-> items.err, calls |-> items.calls, enumerated |-> episodes.val,
             reads |-> episodes.reads]
       ELSE [err |-> NoError,
             calls |-> items.calls
                       \o <<addSortMethod("LABEL_IGNORE_THE"),
                            addSortMethod("VIDEO_YEAR"), endOfDirectory>>,
             enumerated |-> episodes.val, reads |-> episodes.reads]

-----------------------------------------------------------------------------
\* play_video and router.

play_video(path) ==
    [err |-> NoError,
     calls |-> <<setResolvedUrl(TRUE, [ListItem(<<>>) EXCEPT !.path = path])>>,
     enumerated |-> <<>>, reads |-> <<>>]

Raised(err) == [err |-> err, calls |-> <<>>, enumerated |-> <<>>, reads |-> <<>>]

\* router(paramstring): the branch taken and what it did.
router(qs) ==
    LET params == dict(parse_qsl(qs))
    IN IF DOMAIN params = {}
       THEN [route |-> "list_shows"] @@ list_shows
       ELSE IF K_action \notin DOMAIN params
       THEN [route |-> "none"] @@ Raised(Raise("KeyError", "router"))
       ELSE IF params[K_action] = V_listing
       THEN IF K_show_dir \notin DOMAIN params \/ K_show_title \notin DOMAIN params
            THEN [route |-> "none"] @@ Raised(Raise("KeyError", "router"))
            ELSE [route |-> "list_episodes"]
                 @@ list_episodes(Path(params[K_show_dir]), params[K_show_title])
       ELSE IF params[K_action] = V_play
       THEN IF K_video \notin DOMAIN params
            THEN [route |-> "none"] @@ Raised(Raise("KeyError", "router"))
            ELSE [route |-> "play_video"] @@ play_video(params[K_video])
       ELSE [route |-> "none"] @@ Raised(Raise("ValueError", "router"))

-----------------------------------------------------------------------------
\* The disks and the requests the plugin is run on.

ShowFull ==
    WellFormed([tvshow |->
        [title |-> <<"S", "h", "o", "w", " ", "1">>, genre |-> <<"D", "r", "a", "m", "a">>, plot |-> <<"P", "l", "o", "t">>, premiered |-> <<"2", "0", "2", "3">>]])

ShowNoTitle ==
    WellFormed([tvshow |-> [genre |-> <<"D", "r", "a", "m", "a">>, plot |-> <<"P", "l", "o", "t">>, premiered |-> <<"2", "0", "2", "3">>]])

ShowTitleOnly == WellFormed([tvshow |-> [title |-> <<"S", "h", "o", "w", " ", "1">>]])

\* The sidecar of a show folder: none, or tvshow.nfo with one of the contents.
ShowSidecars ==
    {<<>>} \cup {<<File(TvshowNfo, text)>> :
                    text \in {ShowFull, ShowNoTitle, ShowTitleOnly, Malformed}}

\* The art of a show folder.
ShowArts ==
    {<<File(<<"p", "o", "s", "t", "e", "r", ".", "j", "p", "g">>, Binary), File(<<"f", "a", "n", "a", "r", "t", ".", "p", "n", "g">>, Binary)>>,
     <<File(<<"p", "o", "s", "t", "e", "r", ".", "j", "p", "g">>, Binary)>>,
     <<File(<<"f", "a", "n", "a", "r", "t", ".", "p", "n", "g">>, Binary)>>}

CompleteShow ==
    <<File(TvshowNfo, ShowFull), File(<<"p", "o", "s", "t", "e", "r", ".", "j", "p", "g">>, Binary), File(<<"f", "a", "n", "a", "r", "t", ".", "p", "n", "g">>, Binary)>>

\* The contents of a show folder without episodes: any sidecar with both
\* images, or the full sidecar with any art.
ShowFolders ==
    {sidecar \o <<File(<<"p", "o", "s", "t", "e", "r", ".", "j", "p", "g">>, Binary), File(<<"f", "a", "n", "a", "r", "t", ".", "p", "n", "g">>, Binary)>> : sidecar \in ShowSidecars}
    \cup {<<File(TvshowNfo, ShowFull)>> \o art : art \in ShowArts}

\* The episode files of a show folder.
ShowEpisodeEntries ==
    {File(<<"s", "1", "e", "1", ".", "n", "f", "o">>, EpisodeTitleOnly), File(<<"s", "1", "e", "1", ".", "n", "f", "o">>, EpisodeNoTitle),
     File(<<"s", "1", "e", "1", ".", "n", "f", "o">>, Malformed), File(<<"s", "1", "e", "1", ".", "m", "k", "v">>, Binary),
     File(<<"s", "1", "+", "e", "1", ".", "n", "f", "o">>, EpisodeFull), File(<<"s", "1", "+", "e", "1", ".", "m", "p", "4">>, Binary)}

\* The names of the children of SHOW_PATH, by position.
ShowNames == <<ShowA, <<"b", " ", "&", "c">>, <<"%", "4", "1", "+">>, <<"D", "=">>>>

\* A name that no child of SHOW_PATH has.
Missing == <<"n", "o", "n", "e">>

\* The i-th child of SHOW_PATH without episodes: a show folder, or a plain file.
Children(i) ==
    {Folder(ShowNames[i], files) : files \in ShowFolders}
    \cup {File(ShowNames[i], Binary)}

\* The disks with at most n children of SHOW_PATH, none with episodes.
ShowRoots(n) ==
    UNION {{r \in [1..k -> UNION {Children(i) : i \in 1..k}] :
               \A i \in 1..k : r[i] \in Children(i)} : k \in 0..n}

\* The disks with at most n children of SHOW_PATH: any children without
\* episodes, or complete shows of which one holds episode files.
Roots(n) ==
    ShowRoots(n)
    \cup {[i \in 1..x[1] |->
              Folder(ShowNames[i], CompleteShow \o (IF i = x[2] THEN x[3] ELSE <<>>))] :
            x \in {y \in (1..n) \X (1..n) \X Folders(ShowEpisodeEntries, MaxEpisodeFiles) :
                      y[2] <= y[1]}}

\* The one-folder disks for a request that names the folder: episode files,
\* with or without the files of a complete show before them.
EpisodeRoots ==
    {<<Folder(ShowA, show \o files)>> :
        show \in {<<>>, CompleteShow},
        files \in Folders(ShowEpisodeEntries, MaxEpisodeFiles)}

\* Requests that the host makes without a listed item: keyword arguments in
\* the order action, show_dir, show_title, video, each there or not.
Opt(key, values) == {<<>>} \cup {<< <<key, v>> >> : v \in values}

ListingRequests ==
    {a \o d \o t :
        a \in Opt(K_action, {V_listing, V_play, <<"l", "s", "i", "t", "i", "n", "g">>}),
        d \in Opt(K_show_dir, {joinpath(SHOW_PATH, ShowA),
                               joinpath(SHOW_PATH, ShowA) \o <<"/">>,
                               joinpath(SHOW_PATH, Missing)}),
        t \in Opt(K_show_title, {<<"S", "h", "o", "w", " ", "1">>})} \ {<<>>}

VideoChars == {"a", "/", " ", "+", "%", "&", "=", "4", "1"}

PlayRequests ==
    {a \o v :
        a \in Opt(K_action, {V_listing, V_play, <<"l", "s", "i", "t", "i", "n", "g">>}),
        v \in Opt(K_video, Texts(VideoChars, MaxVideoLen))} \ {<<>>}

NoChoice == [kind |-> "none", record |-> <<>>]

Fresh ==
    /\ pc = "start" /\ route = "none" /\ error = NoError
    /\ enumerated = <<>> /\ reads = <<>> /\ calls = <<>>

Init ==
    /\ Unused
    /\ chosen = NoChoice
    /\ Fresh
    /\ \/ /\ root \in Roots(MaxShows)
          /\ kwargs = <<>>
       \/ /\ root \in EpisodeRoots
          /\ kwargs \in ListingRequests
       \/ /\ root = <<>>
          /\ kwargs \in PlayRequests
    /\ paramstring = urlencode(kwargs)

-----------------------------------------------------------------------------
\* One invocation of the plugin, and the host between invocations.

\* What an invocation leaves behind.
Outcome(r) ==
    /\ route' = r.route
    /\ error' = r.err
    /\ calls' = r.calls
    /\ enumerated' = r.enumerated
    /\ reads' = r.reads
    /\ pc' = IF r.err = NoError THEN "done" ELSE "raised"

\* router(sys.argv[2][1:]): the whole invocation.
Invoke ==
    /\ pc = "start"
    /\ Outcome(router(paramstring))
    /\ UNCHANGED <<filename, episode, nfo_file, video, root, kwargs, paramstring, chosen>>

\* The number of addDirectoryItem calls among the first i calls.
ItemsUpTo(i) == Cardinality({j \in 1..i : calls[j].op = "addDirectoryItem"})

\* The host activates a listed item: the plugin is run again, in a fresh
\* process, on the part of the item's URL after URL and '?'. The k-th item
\* was added for the k-th record.
Activate ==
    /\ pc = "done"
    /\ \E i \in 1..Len(calls) :
          /\ calls[i].op = "addDirectoryItem"
          /\ paramstring' = SubSeq(calls[i].url, Len(URL) + 2, Len(calls[i].url))
          /\ chosen' = [kind |-> route, record |-> enumerated[ItemsUpTo(i)]]
    /\ kwargs' = <<>>
    /\ pc' = "start" /\ route' = "none" /\ error' = NoError
    /\ enumerated' = <<>> /\ reads' = <<>> /\ calls' = <<>>
    /\ UNCHANGED <<filename, episode, nfo_file, video, root>>

Next == Invoke \/ Activate

Spec == Init /\ [][Next]_vars

-----------------------------------------------------------------------------
\* Properties of the route dispatcher and the listing handlers, stated on the
\* request, the disk and the adapter calls.

Finished == pc \in {"done", "raised"}

Count(op) == Cardinality({j \in 1..Len(calls) : calls[j].op = op})

\* The request was made by the host directly, from kwargs.
Direct == chosen = NoChoice

\* A keyword argument counts when its value is not blank (a blank value never
\* reaches the parameter set).
HasArg(key) == \E i \in 1..Len(kwargs) : kwargs[i][1] = key /\ kwargs[i][2] # <<>>

Arg(key) == kwargs[CHOOSE i \in 1..Len(kwargs) : kwargs[i][1] = key][2]

ListingRequest ==
    HasArg(K_action) /\ Arg(K_action) = V_listing /\ HasArg(K_show_dir) /\ HasArg(K_show_title)

PlayRequest == HasArg(K_action) /\ Arg(K_action) = V_play /\ HasArg(K_video)

NonEmptyRequest == \E i \in 1..Len(kwargs) : kwargs[i][2] # <<>>

\* C3: every non-empty parameter set that is neither a listing request with
\* show_dir and show_title nor a play request with video makes router fail
\* with ValueError, with no adapter call made.
C3_InvalidRequest ==
    (Finished /\ Direct /\ NonEmptyRequest /\ ~ListingRequest /\ ~PlayRequest)
        => (pc = "raised" /\ error.type = "ValueError" /\ calls = <<>>)

\* The show folders of the disk, and whether one has a tvshow.nfo of a content.
IsShowDir(i) == root[i].is_dir

HasSidecar(i) == \E j \in 1..Len(root[i].files) : root[i].files[j].name = TvshowNfo

HasGoodSidecar(i) ==
    \E j \in 1..Len(root[i].files) :
        root[i].files[j].name = TvshowNfo /\ root[i].files[j].text.wellformed

\* The children of SHOW_PATH, from the i-th on, that are folders with a
\* well-formed tvshow.nfo, as paths.
RECURSIVE GoodShowsFrom(_)
GoodShowsFrom(i) ==
    IF i > Len(root) THEN <<>>
    ELSE (IF IsShowDir(i) /\ HasGoodSidecar(i)
          THEN <<SHOW_PATH \o <<"/">> \o root[i].name>> ELSE <<>>)
         \o GoodShowsFrom(i + 1)

\* C4: when no sidecar is malformed, get_shows raises nothing, also when a
\* folder has no tvshow.nfo: that folder and the plain files give no record,
\* every folder with a tvshow.nfo gives exactly one.
C4_MissingSidecarOmitted ==
    (Finished /\ route = "list_shows"
        /\ \A i \in 1..Len(root) : (IsShowDir(i) /\ HasSidecar(i)) => HasGoodSidecar(i))
        => /\ error.where # "get_shows"
           /\ Len(enumerated) = Len(GoodShowsFrom(1))
           /\ \A k \in 1..Len(enumerated) : enumerated[k].dir = GoodShowsFrom(1)[k]

\* Every .nfo file of the disk is well-formed markup.
AllSidecarsGood ==
    \A i \in 1..Len(root) : \A j \in 1..Len(root[i].files) :
        (Len(root[i].files[j].name) > 4
            /\ SubSeq(root[i].files[j].name, Len(root[i].files[j].name) - 3,
                      Len(root[i].files[j].name)) = NfoSuffix)
        => root[i].files[j].text.wellformed

\* C5: with well-formed sidecars, a listing request does not fail on a key or
\* an image that is missing, and hands one item per enumerated record to the
\* adapter.
C5_MissingKeysTolerated ==
    (/\ Finished
     /\ AllSidecarsGood
     /\ \/ route = "list_shows" /\ \A i \in 1..Len(root) : IsShowDir(i) => HasSidecar(i)
        \/ route = "list_episodes"
           /\ error.type \notin {"FileNotFoundError", "NotADirectoryError"})
        => (pc = "done" /\ Count("addDirectoryItem") = Len(enumerated))

\* C7: a play request resolves exactly the path it was made for: the 'video'
\* value the host encoded or, for an item listed by list_episodes, the url of
\* the record the item was added for; and every such item is a play request.
C7_PlayResolvesPath ==
    /\ (Finished /\ route = "play_video")
          => /\ pc = "done"
             /\ Len(calls) = 1
             /\ calls[1].op = "setResolvedUrl"
             /\ calls[1].list_item.path =
                   IF chosen.kind = "list_episodes" THEN chosen.record.url
                   ELSE Arg(K_video)
    /\ (Finished /\ (chosen.kind = "list_episodes" \/ (Direct /\ PlayRequest)))
          => route = "play_video"

\* C7 happens: the item of an episode whose path holds a space, '&' and '+'
\* was activated and the play request resolved that path.
C7_Witness ==
    /\ pc = "done"
    /\ route = "play_video"
    /\ chosen.kind = "list_episodes"
    /\ \E i, j, k \in 1..Len(chosen.record.url) :
          chosen.record.url[i] = "+" /\ chosen.record.url[j] = "&"
          /\ chosen.record.url[k] = " "
    /\ calls[1].list_item.path = chosen.record.url

\* The content of the file at a path below a child of SHOW_PATH.
FileText(path) ==
    LET at == CHOOSE x \in {y \in (1..Len(root)) \X (1..3 + MaxEpisodeFiles) :
                                y[2] <= Len(root[y[1]].files)} :
                  SHOW_PATH \o <<"/">> \o root[x[1]].name \o <<"/">>
                      \o root[x[1]].files[x[2]].name = path
    IN root[at[1]].files[at[2]].text

\* C8: in a listing request, once a malformed sidecar has been parsed, router
\* ends with ParseError, and no item was added and the folder was not finished.
C8_NoPartialListing ==
    (Finished /\ route \in {"list_shows", "list_episodes"}
        /\ \E r \in 1..Len(reads) : ~FileText(reads[r]).wellformed)
        => /\ pc = "raised"
           /\ error.type = "ParseError"
           /\ Count("addDirectoryItem") = 0
           /\ Count("endOfDirectory") = 0

\* C8 happens: a show was read well before the malformed sidecar of another,
\* and nothing of the listing reached the adapter.
C8_Witness ==
    /\ pc = "raised"
    /\ route = "list_shows"
    /\ error.type = "ParseError"
    /\ Len(reads) = 2
    /\ Count("addDirectoryItem") = 0

\* C10: an invocation that completes took exactly one route: a listing made
\* one addDirectoryItem call per enumerated record, then one endOfDirectory
\* call, which is the last call, and no setResolvedUrl call; a play request
\* made one setResolvedUrl call and neither of the other two.
C10_OnePresentationStep ==
    pc = "done" =>
        \/ /\ route \in {"list_shows", "list_episodes"}
           /\ Count("addDirectoryItem") = Len(enumerated)
           /\ Count("endOfDirectory") = 1
           /\ calls[Len(calls)].op = "endOfDirectory"
           /\ Count("setResolvedUrl") = 0
        \/ /\ route = "play_video"
           /\ Count("setResolvedUrl") = 1
           /\ Count("addDirectoryItem") = 0
           /\ Count("endOfDirectory") = 0

\* C10 happens: a listing of two shows completed.
C10_Witness ==
    /\ pc = "done"
    /\ route = "list_shows"
    /\ Len(enumerated) = 2
    /\ Count("addDirectoryItem") = 2

====
